---- MODULE Spec2Model ----
(***************************************************************************)
(* Model of the planning pipeline of src/app.py: the chainlit handlers     *)
(* start_chat / main / run_graph, the LangGraph workflow with its five     *)
(* stage nodes, the decision function should_continue_or_ask, the Dify     *)
(* streaming clients and the GitHub publisher.                             *)
(*                                                                         *)
(* Texts are sequences of characters.  The two reply tags of the stage     *)
(* bots are two characters long each, as in the source.  A handler is      *)
(* suspended only on its network calls (Dify, GitHub); everything between  *)
(* two network calls is one step.                                          *)
(***************************************************************************)
EXTENDS Integers, Sequences, FiniteSets, TLC

\* ------------------------------------------------------------------ bounds
\* Human messages delivered to one session.
MaxMsgs == 3

\* The message handlers that may be in flight at once in one session.
Handlers == {"h1", "h2"}

\* Human messages delivered while handlers may overlap.
ConcMsgs == 3

\* ------------------------------------------------------------------- texts
None == "None"
END == "__end__"

\* bool(x) of an Optional[str]
Truthy(s) == s # None /\ s # ""

Whitespace == {" "}

\* The reply prefixes tested by planning_step / spec_step: two characters each.
TagDone == <<"shuu", "ryou">>
TagQuestion == <<"shitsu", "mon">>

\* str.startswith
StartsWith(s, p) == Len(s) >= Len(p) /\ SubSeq(s, 1, Len(p)) = p

\* s[n:]
DropFirst(s, n) == SubSeq(s, n + 1, Len(s))

\* str.lstrip(): what strip would be if it left the end alone
StripLeading(s) ==
    LET keep == {i \in 1..Len(s) : s[i] \notin Whitespace}
        lo == CHOOSE i \in keep : \A j \in keep : i <= j
    IN IF keep = {} THEN <<>> ELSE SubSeq(s, lo, Len(s))

\* str.strip()
Strip(s) ==
    LET keep == {i \in 1..Len(s) : s[i] \notin Whitespace}
        lo == CHOOSE i \in keep : \A j \in keep : i <= j
        hi == CHOOSE i \in keep : \A j \in keep : i >= j
    IN IF keep = {} THEN <<>> ELSE SubSeq(s, lo, hi)

\* The content of the n-th human message of the session.
HumanText(n) == <<ToString(n)>>

\* "\n".join(errors)
RECURSIVE JoinLines(_)
JoinLines(errors) ==
    IF Len(errors) = 0 THEN ""
    ELSE IF Len(errors) = 1 THEN errors[1]
    ELSE errors[1] \o "\n" \o JoinLines(Tail(errors))

\* {**a, **b}
Merge(a, b) ==
    [k \in (DOMAIN a) \cup (DOMAIN b) |-> IF k \in DOMAIN b THEN b[k] ELSE a[k]]

\* ------------------------------------------------------ conversation turns
HumanMessage(text) == [role |-> "human", content |-> text, conversation_id |-> ""]

AIMessage(text, cid) == [role |-> "ai", content |-> text, conversation_id |-> cid]

\* the conversation_id of the first assistant turn instead of the last
FirstConversationId(history) ==
    LET ai == {i \in 1..Len(history) : history[i].role = "ai"}
        first == CHOOSE i \in ai : \A j \in ai : i <= j
    IN IF ai = {} THEN "" ELSE history[first].conversation_id

\* next((msg for msg in reversed(history) if isinstance(msg, AIMessage)), None)
\* and its conversation_id, "" when there is none
LastConversationId(history) ==
    LET ai == {i \in 1..Len(history) : history[i].role = "ai"}
        last == CHOOSE i \in ai : \A j \in ai : i >= j
    IN IF ai = {} THEN "" ELSE history[last].conversation_id

\* ------------------------------------------------------------ Dify streams
\* One line of the event stream.  prefix is what the line starts with, kind
\* says whether the data after the prefix is a JSON object.
Line(prefix, kind, event, answer, cid) ==
    [prefix |-> prefix, kind |-> kind, event |-> event, answer |-> answer,
     conversation_id |-> cid]

MessageLine(text) == Line("data: ", "obj", "message", text, "absent")

AgentMessageLine(text) == Line("data: ", "obj", "agent_message", text, "absent")

MessageEndLine(cid) == Line("data: ", "obj", "message_end", <<>>, cid)

BadJsonLine == Line("data: ", "badjson", "", <<>>, "absent")

\* "data:{...}" without the blank: line[len("data: "):] cuts the opening brace
NoBlankLine(text) == Line("data:", "obj", "message", text, "absent")

PingLine == Line("other", "obj", "ping", <<>>, "absent")

\* Does the line reach json.loads and leave it as a dict?
LineParses(l) == l.prefix = "data: " /\ l.kind = "obj"

\* full_response_content after the lines of the stream
RECURSIVE StreamAnswer(_)
StreamAnswer(lines) ==
    IF lines = <<>> THEN <<>>
    ELSE LET l == Head(lines)
             part == IF LineParses(l) /\ l.event \in {"agent_message", "message"}
                     THEN l.answer ELSE <<>>
         IN part \o StreamAnswer(Tail(lines))

\* conversation_id_out after the lines of the stream
RECURSIVE StreamConversationId(_, _)
StreamConversationId(lines, cid) ==
    IF lines = <<>> THEN cid
    ELSE LET l == Head(lines)
             next == IF LineParses(l) /\ l.event = "message_end"
                        /\ l.conversation_id # "absent"
                     THEN l.conversation_id ELSE cid
         IN StreamConversationId(Tail(lines), next)

\* call_dify_api once the stream has been read to its end
call_dify_api(conversation_id, lines) ==
    [answer |-> StreamAnswer(lines),
     conversation_id |-> StreamConversationId(lines, conversation_id),
     error |-> None]

\* call_dify_api / call_completion_api without a key: no request is made
MissingKeyError == "API key is missing."

\* call_completion_api: the stream read to its end, or the failure turned
\* into the "error" entry of the result
call_completion_api(reply) ==
    IF reply.kind = "stream"
    THEN [answer |-> StreamAnswer(reply.lines), error |-> None]
    ELSE IF reply.kind = "http_error"
    THEN [answer |-> <<>>, error |-> "HTTP error: 500"]
    ELSE [answer |-> <<>>, error |-> reply.msg]

\* ------------------------------------------------------------------- state
VARIABLES
    env,                 \* the environment read at import: keys and GitHub settings
    started,             \* start_chat has run for the session
    app_state,           \* cl.user_session "app_state"
    session_project_id,  \* cl.user_session "github_project_id"
    github_client,       \* cl.user_session holds a "github_client"
    run,                 \* per handler: where main / run_graph / the graph stand
    msg_count,           \* human messages delivered so far
    shown,               \* what the handlers of the current message displayed
    stage_log,           \* the stage invocations of the current pipeline run
    ext_calls,           \* the network calls of the current pipeline run
    published,           \* what the publish loop of the current pipeline run gave
    lookups,             \* the last call of get_project_v2_id since the last message
    outcome,             \* how the last finished handler ended
    projects,            \* the "Projects" table: the project ids it holds
    plan_documents,      \* the "PlanningDocuments" table: project id -> content
    tech_spec_documents, \* the "TechSpecDocuments" table: project id -> content
    http_response,       \* the last answer of the projects / documents routers
    variant,             \* which process_stream runs: of api.py or of routers/chat.py
    stream_pc,           \* process_stream: not called, in its loop, or returned
    bot_stream,          \* the chunks bot.stream has still to give
    all_chunks,          \* the chunks bot.stream has given
    buffer,              \* process_stream: buffer
    is_file_content,     \* process_stream: is_file_content
    yielded              \* the JSON lines process_stream has yielded: <<key, text>>

pipeline_vars == <<env, started, app_state, session_project_id, github_client, run,
                   msg_count, shown, stage_log, ext_calls, published, lookups, outcome>>

store_vars == <<projects, plan_documents, tech_spec_documents, http_response>>

stream_vars == <<variant, stream_pc, bot_stream, all_chunks, buffer, is_file_content, yielded>>

vars == <<pipeline_vars, store_vars, stream_vars>>

HistoryKeys == {"plan_conversation_history", "spec_conversation_history"}

\* The initial_state dictionary of start_chat, which reset_chat_state repeats.
InitialState(project_id, error) ==
    [initial_query |-> <<>>,
     plan_conversation_history |-> <<>>,
     plan_output |-> <<>>,
     spec_conversation_history |-> <<>>,
     spec_output |-> <<>>,
     task_output |-> <<>>,
     issue_output |-> <<>>,
     github_project_id |-> project_id,
     created_issues |-> <<>>,
     current_step |-> "start",
     next_step |-> "",
     error_message |-> error]

\* The state channels after a node's update: the two histories have the
\* reducer lambda x, y: x + y, every other key keeps the last value written.
ApplyUpdate(state, upd) ==
    [k \in DOMAIN state |->
        IF k \in DOMAIN upd
        THEN IF k \in HistoryKeys THEN state[k] \o upd[k] ELSE upd[k]
        ELSE state[k]]

\* What a stage function does next: it returns its update, awaits a network
\* call, or lets an exception escape.
Return(upd) == [kind |-> "return", upd |-> upd]

Await(call, local) == [kind |-> "call", call |-> call, local |-> local]

Raise(msg) == [kind |-> "raise", msg |-> msg]

NoLocal == [stage |-> ""]

KeyPresent(stage) == env.missing_key # stage

ErrorUpdate(msg) == [error_message |-> msg, next_step |-> "error"]

\* --------------------------------------------------------------- planning
\* planning_step sending its request whatever the key
planning_step_keyless(state) ==
    LET current_history == state.plan_conversation_history
        query == IF current_history = <<>> THEN state.initial_query
                 ELSE current_history[Len(current_history)].content
        conversation_id == LastConversationId(current_history)
    IN Await([api |-> "dify", stage |-> "planning", query |-> query,
              conversation_id |-> conversation_id], NoLocal)

\* planning_step up to the request
planning_step(state) ==
    LET current_history == state.plan_conversation_history
        query == IF current_history = <<>> THEN state.initial_query
                 ELSE current_history[Len(current_history)].content
        conversation_id == LastConversationId(current_history)
    IN IF ~KeyPresent("planning") THEN Return(ErrorUpdate(MissingKeyError))
       ELSE Await([api |-> "dify", stage |-> "planning", query |-> query,
                   conversation_id |-> conversation_id], NoLocal)

\* planning_step from the response on
planning_step_reply(state, response) ==
    LET current_history == state.plan_conversation_history
        ai_response_text == response.answer
        ai_message == AIMessage(ai_response_text, response.conversation_id)
        updated_history == Append(current_history, ai_message)
    IN IF StartsWith(ai_response_text, TagDone)
       THEN [plan_conversation_history |-> updated_history,
             plan_output |-> Strip(DropFirst(ai_response_text, Len(TagDone))),
             current_step |-> "planning",
             next_step |-> "spec"]
       ELSE IF StartsWith(ai_response_text, TagQuestion)
       THEN [plan_conversation_history |-> updated_history,
             current_step |-> "planning",
             next_step |-> "ask_user"]
       ELSE [plan_conversation_history |-> updated_history,
             plan_output |-> ai_response_text,
             current_step |-> "planning",
             next_step |-> "spec"]

\* ------------------------------------------------------------------- spec
SpecPrompt == <<"spec_prompt">>

\* spec_step without its check of the plan
spec_step_unchecked(state) ==
    LET current_history == state.spec_conversation_history
        plan_output == state.plan_output
        query == IF current_history = <<>> THEN SpecPrompt \o plan_output
                 ELSE current_history[Len(current_history)].content
        conversation_id == LastConversationId(current_history)
    IN IF ~KeyPresent("spec") THEN Return(ErrorUpdate(MissingKeyError))
       ELSE Await([api |-> "dify", stage |-> "spec", query |-> query,
                   conversation_id |-> conversation_id], NoLocal)

\* spec_step up to the request
spec_step(state) ==
    LET current_history == state.spec_conversation_history
        plan_output == state.plan_output
        query == IF current_history = <<>> THEN SpecPrompt \o plan_output
                 ELSE current_history[Len(current_history)].content
        conversation_id == LastConversationId(current_history)
    IN IF plan_output = <<>> THEN Return(ErrorUpdate("plan not found"))
       ELSE IF ~KeyPresent("spec") THEN Return(ErrorUpdate(MissingKeyError))
       ELSE Await([api |-> "dify", stage |-> "spec", query |-> query,
                   conversation_id |-> conversation_id], NoLocal)

\* spec_step from the response on
spec_step_reply(state, response) ==
    LET current_history == state.spec_conversation_history
        ai_response_text == response.answer
        ai_message == AIMessage(ai_response_text, response.conversation_id)
        updated_history == Append(current_history, ai_message)
    IN IF StartsWith(ai_response_text, TagDone)
       THEN [spec_conversation_history |-> updated_history,
             spec_output |-> Strip(DropFirst(ai_response_text, Len(TagDone))),
             current_step |-> "spec",
             next_step |-> "task"]
       ELSE IF StartsWith(ai_response_text, TagQuestion)
       THEN [spec_conversation_history |-> updated_history,
             current_step |-> "spec",
             next_step |-> "ask_user"]
       ELSE [spec_conversation_history |-> updated_history,
             spec_output |-> ai_response_text,
             current_step |-> "spec",
             next_step |-> "task"]

\* ------------------------------------------------------------------- task
\* task_step up to the request
task_step(state) ==
    IF state.plan_output = <<>> \/ state.spec_output = <<>>
    THEN Return(ErrorUpdate("plan or spec not found"))
    ELSE IF ~KeyPresent("task") THEN Return(ErrorUpdate(MissingKeyError))
    ELSE Await([api |-> "completion", stage |-> "task",
                plan |-> state.plan_output, tech_spec |-> state.spec_output],
               NoLocal)

\* task_step from the response on
task_step_reply(state, response) ==
    IF Truthy(response.error) THEN ErrorUpdate(response.error)
    ELSE [task_output |-> response.answer,
          current_step |-> "task",
          next_step |-> "issue"]

\* ------------------------------------------------------------------ issue
\* The task list is JSON text.  Its characters here: an opening of the object
\* with its "issues" list, the items, and the closing; a title is a JSON
\* string, NumberItem a JSON number.
JsonOpenIssues == "{\"issues\":["
JsonClose == "]}"
JsonEmptyList == "[]"
NumberItem == "7"
Titles == {"t1", "t2"}

\* json.loads(task_output): "error" for JSONDecodeError, "other" for valid
\* JSON that is no object with a list under "issues".
JsonKind(text) ==
    IF text = <<JsonEmptyList>> THEN "other"
    ELSE IF /\ Len(text) >= 2
            /\ text[1] = JsonOpenIssues
            /\ text[Len(text)] = JsonClose
            /\ \A i \in 2..(Len(text) - 1) : text[i] \in Titles \cup {NumberItem}
    THEN "issues"
    ELSE "error"

\* task_list_data["issues"]
JsonIssues(text) == SubSeq(text, 2, Len(text) - 1)

\* the first index >= i of a string item, Len + 1 when there is none
RECURSIVE NextTitle(_, _)
NextTitle(tasks, i) ==
    IF i > Len(tasks) THEN i
    ELSE IF tasks[i] \in Titles THEN i
    ELSE NextTitle(tasks, i + 1)

IssueDone(issues) ==
    [issue_output |-> issues, current_step |-> "issue", next_step |-> "github_publish"]

\* the for loop of issue_step from item i on, up to its next request
IssueLoop(state, tasks, i, issues) ==
    LET j == NextTitle(tasks, i)
    IN IF j > Len(tasks) THEN Return(IssueDone(issues))
       ELSE IF ~KeyPresent("issue")
       THEN Return(ErrorUpdate("issue body: " \o MissingKeyError))
       ELSE Await([api |-> "completion", stage |-> "issue",
                   plan |-> state.plan_output, tech_spec |-> state.spec_output,
                   tasks |-> state.task_output, title |-> tasks[j]],
                  [stage |-> "issue", tasks |-> tasks, i |-> j, issues |-> issues])

\* issue_step up to its first request
issue_step(state) ==
    LET task_output == state.task_output
    IN IF task_output = <<>> THEN Return(ErrorUpdate("task list not found"))
       ELSE IF JsonKind(task_output) = "error"
       THEN Return(ErrorUpdate("task list is no JSON"))
       ELSE IF JsonKind(task_output) = "other"
       THEN Return(ErrorUpdate("task list has a wrong format"))
       ELSE IssueLoop(state, JsonIssues(task_output), 1, <<>>)

\* issue_step from the response for item local.i on
issue_step_reply(state, local, response) ==
    IF Truthy(response.error)
    THEN Return(ErrorUpdate("issue body: " \o response.error))
    ELSE IssueLoop(state, local.tasks, local.i + 1,
                   Append(local.issues,
                          [title |-> local.tasks[local.i], body |-> response.answer]))

\* ---------------------------------------------------------------- GitHub
ProjectId == "PVT_1"

\* the id in the answer of the lookup as organization
OrgProjectId == "PVT_2"

\* get_project_v2_id sending both queries whatever the first one gives
project_requests_both(lookup) == <<"user", "organization">>

\* GitHubClient.get_project_v2_id: the queries it sends, in their order
project_requests(lookup) ==
    IF lookup.user = "found" THEN <<"user">> ELSE <<"user", "organization">>

\* the errors entry of a board whose identifier was not found
BoardNotFound == "project not found"

\* GitHubClient.get_project_v2_id: the lookup as user, then as organization.
\* Each lookup ends "found", "not_found", "errors" or "exception".
get_project_v2_id(lookup) ==
    IF lookup.user = "found" THEN ProjectId
    ELSE IF lookup.org = "found" THEN OrgProjectId
    ELSE None

\* GitHubClient.create_issue: the created issue of the response
CreatedIssue(title, i, has_node_id) ==
    [title |-> title,
     number |-> ToString(i),
     html_url |-> "url/" \o ToString(i),
     node_id |-> IF has_node_id THEN "node/" \o ToString(i) ELSE None]

PublishLocal(project_id, errors, created, i) ==
    [stage |-> "github_publish", project_id |-> project_id, errors |-> errors,
     created |-> created, i |-> i]

\* the end of github_publish_step signalling the end whatever the errors
PublishDoneAlways(local) ==
    LET final_error_message ==
            IF local.errors # <<>> THEN JoinLines(local.errors) ELSE None
    IN [created_issues |-> local.created,
        github_project_id |-> local.project_id,
        error_message |-> final_error_message,
        current_step |-> "github_publish",
        next_step |-> "end"]

\* the end of github_publish_step
PublishDone(local) ==
    LET final_error_message ==
            IF local.errors # <<>> THEN JoinLines(local.errors) ELSE None
    IN [created_issues |-> local.created,
        github_project_id |-> local.project_id,
        error_message |-> final_error_message,
        current_step |-> "github_publish",
        next_step |-> IF ~Truthy(final_error_message) THEN "end" ELSE "error"]

\* the for loop of github_publish_step at issue local.i, up to create_issue
PublishLoop(state, local) ==
    IF local.i > Len(state.issue_output)
    THEN Merge(Return(PublishDone(local)),
               [shows |-> {<<"publish_error", local.errors[k]>> : k \in DOMAIN local.errors}
                          \cup {<<"issue_created", local.created[k].html_url>> :
                                    k \in DOMAIN local.created},
                published |-> [input |-> state.issue_output,
                               created |-> local.created,
                               errors |-> local.errors]])
    ELSE Await([api |-> "create_issue", stage |-> "github_publish",
                title |-> state.issue_output[local.i].title,
                body |-> state.issue_output[local.i].body], local)

\* github_publish_step up to its first request
github_publish_step(state, has_client, session_pid) ==
    LET issues_to_create == state.issue_output
        project_id == state.github_project_id
    IN IF ~has_client
       THEN Return(Merge(state, ErrorUpdate("github client is not initialised")))
       ELSE IF issues_to_create = <<>>
       THEN Return(Merge(state, [created_issues |-> <<>>,
                                 current_step |-> "github_publish",
                                 next_step |-> "end"]))
       ELSE IF ~Truthy(project_id) /\ env.project_number
       THEN Await([api |-> "project_id", stage |-> "github_publish"],
                  PublishLocal(project_id, <<>>, <<>>, 1))
       ELSE IF Truthy(project_id)
       THEN PublishLoop(state, PublishLocal(session_pid, <<>>, <<>>, 1))
       ELSE PublishLoop(state, PublishLocal(project_id, <<>>, <<>>, 1))

\* github_publish_step from the answer of get_project_v2_id on
publish_project_reply(state, local, reply) ==
    LET project_id == get_project_v2_id(reply)
    IN IF ~Truthy(project_id)
       THEN Merge(PublishLoop(state,
                    [local EXCEPT !.project_id = project_id,
                                  !.errors = Append(@, BoardNotFound)]),
                  [looked_up |-> reply])
       ELSE Merge(PublishLoop(state, [local EXCEPT !.project_id = project_id]),
                  [session_project_id |-> project_id, looked_up |-> reply])

\* publish_create_reply leaving the loop at the first failed creation
publish_create_reply_abort(state, local, call, reply) ==
    IF reply.kind = "raise"
    THEN PublishLoop(state,
            [local EXCEPT !.errors = Append(@, "issue failed: " \o call.title),
                          !.i = Len(state.issue_output) + 1])
    ELSE LET created_issue == CreatedIssue(call.title, local.i, reply.node_id)
             local1 == [local EXCEPT !.created = Append(@, created_issue)]
         IN IF Truthy(local.project_id) /\ Truthy(created_issue.node_id)
            THEN Await([api |-> "add_to_project", stage |-> "github_publish",
                        project_id |-> local.project_id,
                        node_id |-> created_issue.node_id,
                        title |-> call.title], local1)
            ELSE IF Truthy(local.project_id)
            THEN PublishLoop(state,
                    [local1 EXCEPT !.errors = Append(@, "no node id: " \o call.title),
                                   !.i = @ + 1])
            ELSE PublishLoop(state, [local1 EXCEPT !.i = @ + 1])

\* publish_create_reply without the errors entry of a failed creation
publish_create_reply_silent(state, local, call, reply) ==
    IF reply.kind = "raise"
    THEN PublishLoop(state, [local EXCEPT !.i = @ + 1])
    ELSE LET created_issue == CreatedIssue(call.title, local.i, reply.node_id)
             local1 == [local EXCEPT !.created = Append(@, created_issue)]
         IN IF Truthy(local.project_id) /\ Truthy(created_issue.node_id)
            THEN Await([api |-> "add_to_project", stage |-> "github_publish",
                        project_id |-> local.project_id,
                        node_id |-> created_issue.node_id,
                        title |-> call.title], local1)
            ELSE IF Truthy(local.project_id)
            THEN PublishLoop(state,
                    [local1 EXCEPT !.errors = Append(@, "no node id: " \o call.title),
                                   !.i = @ + 1])
            ELSE PublishLoop(state, [local1 EXCEPT !.i = @ + 1])

\* github_publish_step from the answer of create_issue for issue local.i on
publish_create_reply(state, local, call, reply) ==
    IF reply.kind = "raise"
    THEN PublishLoop(state,
            [local EXCEPT !.errors = Append(@, "issue failed: " \o call.title),
                          !.i = @ + 1])
    ELSE LET created_issue == CreatedIssue(call.title, local.i, reply.node_id)
             local1 == [local EXCEPT !.created = Append(@, created_issue)]
         IN IF Truthy(local.project_id) /\ Truthy(created_issue.node_id)
            THEN Await([api |-> "add_to_project", stage |-> "github_publish",
                        project_id |-> local.project_id,
                        node_id |-> created_issue.node_id,
                        title |-> call.title], local1)
            ELSE IF Truthy(local.project_id)
            THEN PublishLoop(state,
                    [local1 EXCEPT !.errors = Append(@, "no node id: " \o call.title),
                                   !.i = @ + 1])
            ELSE PublishLoop(state, [local1 EXCEPT !.i = @ + 1])

\* github_publish_step from the answer of add_issue_to_project_v2 on
publish_add_reply(state, local, call, reply) ==
    IF reply.item_id # None
    THEN PublishLoop(state, [local EXCEPT !.i = @ + 1])
    ELSE PublishLoop(state,
            [local EXCEPT !.errors = Append(@, "not added: " \o call.title),
                          !.i = @ + 1])

\* --------------------------------------------------------------- workflow
\* should_continue_or_ask handing an unknown next_step on as the decision
should_continue_or_ask_passing(state) ==
    LET next_step == state.next_step
    IN IF Truthy(state.error_message) THEN "error"
       ELSE IF next_step = "end" THEN END
       ELSE next_step

\* should_continue_or_ask
should_continue_or_ask(state) ==
    LET next_step == state.next_step
    IN IF Truthy(state.error_message) THEN "error"
       ELSE IF next_step = "ask_user" THEN "ask_user"
       ELSE IF next_step = "spec" THEN "spec"
       ELSE IF next_step = "task" THEN "task"
       ELSE IF next_step = "issue" THEN "issue"
       ELSE IF next_step = "github_publish" THEN "github_publish"
       ELSE IF next_step = "end" THEN END
       ELSE "error"

\* the conditional edges added to the workflow
EdgeTable ==
    [planning |-> ("spec" :> "spec") @@ ("ask_user" :> END) @@ ("error" :> "error_node"),
     spec |-> ("task" :> "task") @@ ("ask_user" :> END) @@ ("error" :> "error_node"),
     task |-> ("issue" :> "issue") @@ ("error" :> "error_node"),
     issue |-> ("github_publish" :> "github_publish") @@ ("error" :> "error_node"),
     github_publish |-> (END :> END) @@ ("error" :> "error_node")]

EntryPoint == "planning"

StageNodes == {"planning", "spec", "task", "issue", "github_publish"}

\* -------------------------------------------------------------- run_graph
NoCall == [api |-> "", stage |-> ""]

NoPublish == [input |-> <<>>, created |-> <<>>, errors |-> <<>>]

NoLookup == [requests |-> <<>>, lookup |-> [user |-> "", org |-> ""], result |-> None]

\* One call of get_project_v2_id: its queries, what they met, what it returned.
ProjectLookup(lookup) ==
    [requests |-> project_requests(lookup), lookup |-> lookup,
     result |-> get_project_v2_id(lookup)]

NoState == [current_step |-> ""]

IdleRun ==
    [pc |-> "idle", node |-> "", resume_from |-> None, first |-> TRUE, inv |-> 0,
     merged_state |-> NoState, graph_state |-> NoState,
     current_step_name |-> "", call |-> NoCall, local |-> NoLocal]

\* The session and the logs as one handler h sees and changes them.
World(h) ==
    [app_state |-> app_state, session_project_id |-> session_project_id,
     shown |-> shown, stage_log |-> stage_log, ext_calls |-> ext_calls,
     published |-> published, lookups |-> lookups, outcome |-> outcome,
     c |-> run[h]]

Show(w, kind, detail) == [w EXCEPT !.shown = @ \cup {<<kind, detail>>}]

\* reset_chat_state putting back the step and the flag only
reset_chat_state_partial(w) ==
    [Show(w, "reset", "") EXCEPT
        !.app_state.current_step = "start",
        !.app_state.next_step = ""]

\* reset_chat_state
reset_chat_state(w) ==
    [Show(w, "reset", "") EXCEPT
        !.app_state = InitialState(w.session_project_id, None)]

Finish(w, kind, error) ==
    [w EXCEPT !.c = IdleRun, !.outcome = [kind |-> kind, error |-> error]]

\* run_graph after its loop: the final state is stored and the run reported
FinalHandling(w, final_state) ==
    LET w1 == [w EXCEPT !.app_state = final_state]
        error_msg == final_state.error_message
        next_step == final_state.next_step
        current_step_name == w.c.current_step_name
    IN IF Truthy(error_msg) /\ current_step_name # "error"
       THEN Finish(reset_chat_state(Show(w1, "error", error_msg)), "error", error_msg)
       ELSE IF next_step = "ask_user"
       THEN Finish(w1, "paused", error_msg)
       ELSE IF current_step_name = "github_publish" /\ ~Truthy(error_msg)
       THEN Finish(reset_chat_state(Show(w1, "completed", "")), "done", error_msg)
       ELSE IF current_step_name = "error"
       THEN Finish(reset_chat_state(w1), "error", error_msg)
       ELSE IF next_step = END /\ ~Truthy(error_msg)
       THEN Finish(reset_chat_state(Show(w1, "finished", "")), "done", error_msg)
       ELSE Finish(reset_chat_state(Show(w1, "unexpected_state", "")),
                   "unexpected", error_msg)

\* the except branch of run_graph: the session state gets the exception's text
GraphException(w, msg) ==
    LET error_state == [w.app_state EXCEPT !.error_message = msg]
    IN FinalHandling([Show(w, "exception", msg) EXCEPT !.app_state = error_state],
                     error_state)

\* a stage function up to its first request
StageEntry(node, state, session_pid) ==
    CASE node = "planning" -> planning_step(state)
      [] node = "spec" -> spec_step(state)
      [] node = "task" -> task_step(state)
      [] node = "issue" -> issue_step(state)
      [] node = "github_publish" -> github_publish_step(state, github_client, session_pid)

\* a stage function from the answer to its request on
StageReply(node, state, local, call, reply) ==
    CASE call.api = "dify" ->
            IF reply.kind = "raise" THEN Raise(reply.msg)
            ELSE IF node = "planning"
            THEN Return(planning_step_reply(state,
                            call_dify_api(call.conversation_id, reply.lines)))
            ELSE Return(spec_step_reply(state,
                            call_dify_api(call.conversation_id, reply.lines)))
      [] call.api = "completion" ->
            IF node = "task"
            THEN Return(task_step_reply(state, call_completion_api(reply)))
            ELSE issue_step_reply(state, local, call_completion_api(reply))
      [] call.api = "project_id" -> publish_project_reply(state, local, reply)
      [] call.api = "create_issue" -> publish_create_reply(state, local, call, reply)
      [] call.api = "add_to_project" -> publish_add_reply(state, local, call, reply)

\* The log of stage invocations: what the stage function found when it was
\* called, and (returned, to) once it has returned: the next_step it left in
\* the state and the node the graph went to.
LogStage(w, h, node) ==
    [w EXCEPT !.stage_log = Append(@,
                  [h |-> h, stage |-> node, first |-> w.c.first,
                   resume_from |-> w.c.resume_from,
                   error_at_entry |-> Truthy(w.c.graph_state.error_message),
                   plan_reply |->
                       LET history == w.c.graph_state.plan_conversation_history
                       IN IF history = <<>> THEN <<>>
                          ELSE history[Len(history)].content,
                   plan_output |-> w.c.graph_state.plan_output,
                   spec_set |-> w.c.graph_state.spec_output # <<>>,
                   task_set |-> w.c.graph_state.task_output # <<>>,
                   issues_set |-> w.c.graph_state.issue_output # <<>>,
                   replied |-> FALSE, reply |-> <<>>, output |-> <<>>,
                   keys |-> {}, handle_in |-> "", handle_out |-> "", lines |-> <<>>,
                   failed_after |-> 0, returned |-> "", to |-> ""]),
              !.c.first = FALSE,
              !.c.inv = Len(w.stage_log) + 1]

LogReturn(w, returned, to) ==
    IF w.c.inv \in DOMAIN w.stage_log
    THEN [w EXCEPT !.stage_log[w.c.inv].returned = returned,
                   !.stage_log[w.c.inv].to = to]
    ELSE w

\* The keys of the update a stage returned; and for a conversational stage
\* the reply it got, as it stands in the assistant turn of its update, with
\* the stage's output in the state after the update.
LogReply(w, node, upd, graph_state) ==
    LET key == IF node = "planning" THEN "plan_conversation_history"
               ELSE "spec_conversation_history"
        out == IF node = "planning" THEN "plan_output" ELSE "spec_output"
    IN IF w.c.inv \notin DOMAIN w.stage_log THEN w
       ELSE IF node \in {"planning", "spec"} /\ key \in DOMAIN upd
       THEN [w EXCEPT !.stage_log[w.c.inv].keys = DOMAIN upd,
                      !.stage_log[w.c.inv].replied = TRUE,
                      !.stage_log[w.c.inv].reply = upd[key][Len(upd[key])].content,
                      !.stage_log[w.c.inv].handle_out =
                            upd[key][Len(upd[key])].conversation_id,
                      !.stage_log[w.c.inv].output = graph_state[out]]
       ELSE [w EXCEPT !.stage_log[w.c.inv].keys = DOMAIN upd]

\* The stream that answered the request of stage invocation inv, and the
\* conversation handle the request carried; for a request of the issue stage
\* that failed, the number of requests the invocation had made by then.
LogLines(w, inv, call, reply) ==
    IF inv \in DOMAIN w.stage_log /\ call.api = "dify" /\ reply.kind = "stream"
    THEN [w EXCEPT !.stage_log[inv].lines = reply.lines,
                   !.stage_log[inv].handle_in = call.conversation_id]
    ELSE IF /\ inv \in DOMAIN w.stage_log
            /\ call.api = "completion" /\ call.stage = "issue"
            /\ reply.kind \in {"http_error", "raise"}
            /\ w.stage_log[inv].failed_after = 0
    THEN [w EXCEPT !.stage_log[inv].failed_after =
                        Cardinality({k \in DOMAIN w.ext_calls : w.ext_calls[k].inv = inv})]
    ELSE w

\* The log of network calls, each with the stage invocation that made it.
LogCall(w, h, node, call) ==
    [w EXCEPT !.ext_calls = Append(@,
                  [h |-> h, stage |-> node, inv |-> w.c.inv, call |-> call])]

RECURSIVE EnterNode(_, _, _), Continue(_, _, _, _), AfterNode(_, _, _, _)

\* The graph reaches a node.  END and error_node end the loop of run_graph;
\* a stage node runs up to its first request.
EnterNode(w, h, node) ==
    IF node = END THEN FinalHandling(w, w.c.graph_state)
    ELSE IF node = "error_node"
    THEN FinalHandling([w EXCEPT !.c.current_step_name = "error"], w.c.merged_state)
    ELSE Continue(LogStage(w, h, node), h, node,
                  StageEntry(node, w.c.graph_state, w.session_project_id))

\* What the stage function of the node did: r is Return, Await or Raise.
Continue(w, h, node, r) ==
    LET w1 == IF "session_project_id" \in DOMAIN r
              THEN [w EXCEPT !.session_project_id = r.session_project_id]
              ELSE w
        w1s == IF "shows" \in DOMAIN r
               THEN [w1 EXCEPT !.shown = @ \cup r.shows]
               ELSE w1
        w1p == IF "published" \in DOMAIN r
               THEN [w1s EXCEPT !.published = r.published]
               ELSE w1s
        w2 == IF "looked_up" \in DOMAIN r
              THEN [w1p EXCEPT !.lookups = ProjectLookup(r.looked_up)]
              ELSE w1p
    IN IF r.kind = "return" THEN AfterNode(w2, h, node, r.upd)
       ELSE IF r.kind = "raise"
       THEN GraphException(LogReturn(w2, "raise", "exception"), r.msg)
       ELSE [LogCall(w2, h, node, r.call) EXCEPT
                !.c.pc = "await", !.c.node = node,
                !.c.call = r.call, !.c.local = r.local]

\* The node returned upd: the graph applies it and picks the next node, then
\* run_graph merges the event into merged_state and stores it in the session.
AfterNode(w, h, node, upd) ==
    LET graph_state == ApplyUpdate(w.c.graph_state, upd)
        decision == should_continue_or_ask(graph_state)
        merged_state == Merge(w.c.merged_state, upd)
        returned == graph_state.next_step
        w1 == [LogReturn(LogReply(w, node, upd, graph_state),
                         returned, EdgeTable[node][decision]) EXCEPT
                        !.c.graph_state = graph_state,
                        !.c.merged_state = merged_state,
                        !.c.current_step_name = node,
                        !.app_state = merged_state]
    IN IF decision \notin DOMAIN EdgeTable[node]
       THEN GraphException(LogReturn(w, returned, "exception"), "KeyError")
       ELSE IF merged_state.next_step = "ask_user"
       THEN FinalHandling(w1, merged_state)
       ELSE EnterNode(w1, h, EdgeTable[node][decision])

\* run_graph(input_state): the session state merged with the input is the
\* input of the graph, which starts at its entry point.
run_graph(w, h, input_state, resume_from) ==
    LET merged_state == Merge(w.app_state, input_state)
        w1 == [w EXCEPT !.c = [IdleRun EXCEPT
                    !.resume_from = resume_from,
                    !.merged_state = merged_state,
                    !.graph_state = merged_state,
                    !.current_step_name = merged_state.current_step]]
    IN EnterNode(w1, h, EntryPoint)

\* ------------------------------------------------------------------- main
\* main(message) up to the first request of the run it starts
main_message(w, h, text) ==
    LET current_step_logic == w.app_state.current_step
        next_step_flag == w.app_state.next_step
    IN IF next_step_flag = "ask_user"
       THEN IF current_step_logic = "planning"
            THEN run_graph(w, h,
                    [plan_conversation_history |->
                        Append(w.app_state.plan_conversation_history, HumanMessage(text))],
                    "planning")
            ELSE IF current_step_logic = "spec"
            THEN run_graph(w, h,
                    [spec_conversation_history |->
                        Append(w.app_state.spec_conversation_history, HumanMessage(text))],
                    "spec")
            ELSE Finish(Show(w, "unexpected_timing", ""), "rejected", None)
       ELSE IF current_step_logic = "start"
       THEN run_graph([w EXCEPT !.stage_log = <<>>, !.ext_calls = <<>>,
                                !.published = NoPublish], h,
                [initial_query |-> text,
                 plan_conversation_history |-> <<HumanMessage(text)>>],
                None)
       ELSE Finish(Show(w, "busy", ""), "rejected", None)

\* ----------------------------------------------------------- environment
\* The answers a request in flight can get.
ExceptionTexts == {"HTTP 500", ""}

ChatStreams ==
    { <<MessageLine(TagDone \o <<" ">>), BadJsonLine,
        AgentMessageLine(<<"p", " ">>), MessageEndLine("c1")>>,
      <<MessageLine(TagDone)>>,
      <<MessageLine(TagQuestion), NoBlankLine(<<"x">>), MessageLine(<<"q">>),
        MessageEndLine("c2")>>,
      <<PingLine, MessageLine(<<"r">>)>>,
      <<>> }

TaskStreams ==
    { <<MessageLine(<<JsonOpenIssues, "t1">>), MessageLine(<<"t2", JsonClose>>)>>,
      <<MessageLine(<<JsonOpenIssues, NumberItem, "t1", JsonClose>>)>>,
      <<MessageLine(<<JsonOpenIssues, JsonClose>>)>>,
      <<MessageLine(<<JsonEmptyList>>)>>,
      <<MessageLine(<<"t1">>)>>,
      <<>> }

BodyStreams == { <<MessageLine(<<"b">>)>>, <<>> }

Failures ==
    {[kind |-> "http_error"]} \cup {[kind |-> "raise", msg |-> m] : m \in ExceptionTexts}

\* how one query of get_project_v2_id can end; "exception" stands for an HTTP
\* status error too
LookupEnds == {"found", "not_found", "errors", "exception"}

Lookups == {[user |-> u, org |-> o] : u \in LookupEnds, o \in LookupEnds}

Replies(call) ==
    CASE call.api = "dify" ->
            {[kind |-> "stream", lines |-> l] : l \in ChatStreams}
            \cup {[kind |-> "raise", msg |-> m] : m \in ExceptionTexts}
      [] call.api = "completion" /\ call.stage = "task" ->
            {[kind |-> "stream", lines |-> l] : l \in TaskStreams} \cup Failures
      [] call.api = "completion" /\ call.stage = "issue" ->
            {[kind |-> "stream", lines |-> l] : l \in BodyStreams} \cup Failures
      [] call.api = "project_id" -> Lookups
      [] call.api = "create_issue" ->
            {[kind |-> "ok", node_id |-> b] : b \in BOOLEAN} \cup {[kind |-> "raise"]}
      [] call.api = "add_to_project" -> {[item_id |-> "item"], [item_id |-> None]}

\* ---------------------------------------------------------------- actions
Commit(h, w) ==
    /\ app_state' = w.app_state
    /\ session_project_id' = w.session_project_id
    /\ shown' = w.shown
    /\ stage_log' = w.stage_log
    /\ ext_calls' = w.ext_calls
    /\ published' = w.published
    /\ lookups' = w.lookups
    /\ outcome' = w.outcome
    /\ run' = [run EXCEPT ![h] = w.c]

NoOutcome == [kind |-> "none", error |-> None]

Environments ==
    [missing_key : {"none", "planning", "spec", "task", "issue"},
     github_vars : BOOLEAN,
     project_number : BOOLEAN]

InitSession ==
    /\ started = FALSE
    /\ app_state = NoState
    /\ session_project_id = None
    /\ github_client = FALSE
    /\ run = [h \in Handlers |-> IdleRun]
    /\ msg_count = 0
    /\ shown = {}
    /\ stage_log = <<>>
    /\ ext_calls = <<>>
    /\ published = NoPublish
    /\ lookups = NoLookup
    /\ outcome = NoOutcome

\* a DynamoDB table without items
EmptyTable == [project_id \in {} |-> ""]

\* no request has reached the projects and documents routers
StoreIdle ==
    /\ projects = {}
    /\ plan_documents = EmptyTable
    /\ tech_spec_documents = EmptyTable
    /\ http_response = [op |-> "none", project_id |-> None, status |-> 0]

\* no chat stream is open
StreamIdle ==
    /\ variant = "api"
    /\ stream_pc = "idle"
    /\ bot_stream = <<>>
    /\ all_chunks = <<>>
    /\ buffer = <<>>
    /\ is_file_content = FALSE
    /\ yielded = <<>>

Init == env \in Environments /\ InitSession /\ StoreIdle /\ StreamIdle

\* The environments of the overlapping handlers: the pipeline ends after its
\* two conversational stages, for want of the task key.
ConcInit ==
    /\ env \in {e \in Environments : e.missing_key = "task" /\ ~e.project_number}
    /\ InitSession
    /\ StoreIdle
    /\ StreamIdle

\* start_chat: the GitHub client, the project id fetched ahead, the initial state
start_chat ==
    /\ ~started
    /\ started' = TRUE
    /\ \E lookup \in Lookups :
        LET github_error == IF env.github_vars THEN None ELSE "github variables missing"
            project_id == IF env.github_vars /\ env.project_number
                          THEN get_project_v2_id(lookup) ELSE None
        IN /\ github_client' = env.github_vars
           /\ session_project_id' = project_id
           /\ lookups' = IF env.github_vars /\ env.project_number
                         THEN ProjectLookup(lookup) ELSE NoLookup
           /\ app_state' = InitialState(project_id, github_error)
           /\ shown' = IF Truthy(github_error) THEN {<<"warning", github_error>>} ELSE {}
    /\ UNCHANGED <<env, run, msg_count, stage_log, ext_calls, published, outcome>>
    /\ UNCHANGED <<store_vars, stream_vars>>

\* main: a human message arrives and handler h takes it
main(h) ==
    /\ started
    /\ run[h].pc = "idle"
    /\ msg_count < MaxMsgs
    /\ msg_count' = msg_count + 1
    /\ Commit(h, main_message([World(h) EXCEPT !.shown = {}, !.lookups = NoLookup], h, HumanText(msg_count + 1)))
    /\ UNCHANGED <<env, started, github_client>>
    /\ UNCHANGED <<store_vars, stream_vars>>

\* the request of handler h is answered and the handler runs on to its next
\* request or to its end
StageReturn(h) ==
    /\ run[h].pc = "await"
    /\ \E reply \in Replies(run[h].call) :
        Commit(h, Continue(LogLines(World(h), run[h].inv, run[h].call, reply),
                           h, run[h].node,
                           StageReply(run[h].node, run[h].graph_state, run[h].local,
                                      run[h].call, reply)))
    /\ UNCHANGED <<env, started, github_client, msg_count>>
    /\ UNCHANGED <<store_vars, stream_vars>>

\* One handler at a time: a message is delivered when the last one is handled.
Next ==
    \/ start_chat
    \/ main("h1")
    \/ StageReturn("h1")

Spec == Init /\ [][Next]_vars

\* Messages are delivered as they come, also while a handler is suspended.
ConcNext ==
    \/ start_chat
    \/ \E h \in Handlers : msg_count < ConcMsgs /\ main(h)
    \/ \E h \in Handlers : StageReturn(h)

ConcSpec == ConcInit /\ [][ConcNext]_vars

\* ------------------------------------------------------------ properties
Idle == \A h \in Handlers : run[h].pc = "idle"

\* Is a question pending in the session?
Pending == started /\ app_state.next_step = "ask_user"

\* the fixed order of the stages
NextStage ==
    [planning |-> "spec", spec |-> "task", task |-> "issue", issue |-> "github_publish"]

HistoryOf(stage) ==
    IF stage = "planning" THEN "plan_conversation_history" ELSE "spec_conversation_history"

NextSteps == {"", "ask_user", "spec", "task", "issue", "github_publish", "end", "error"}

\* C1: when the run is paused on a question of stage S and a human message
\* arrives, the message is appended to the history of S and the first stage
\* invoked is S itself.
C1_ResumeInvokesPausedStage ==
    /\ \A i \in DOMAIN stage_log :
          stage_log[i].first /\ stage_log[i].resume_from # None
              => stage_log[i].stage = stage_log[i].resume_from
    /\ \A h \in Handlers :
          run[h].pc = "await" /\ run[h].resume_from # None
              => LET history == run[h].graph_state[HistoryOf(run[h].resume_from)]
                 IN \E k \in DOMAIN history :
                        history[k] = HumanMessage(HumanText(msg_count))

\* C2: the stages of a pipeline run, runs resumed after a question included,
\* are invoked along planning -> spec -> task -> issue -> publish, or a stage
\* again after its own question; never backwards, never skipping.
C2_StagesInOrder ==
    /\ stage_log # <<>> => stage_log[1].stage = "planning"
    /\ \A i \in DOMAIN stage_log :
          i + 1 \in DOMAIN stage_log =>
              LET a == stage_log[i]
                  b == stage_log[i + 1]
              IN IF b.first
                 THEN a.returned = "ask_user" /\ b.stage = a.stage
                 ELSE a.stage \in DOMAIN NextStage /\ b.stage = NextStage[a.stage]

\* C3: at most one stage invocation of a session is in flight at any moment,
\* also when a message arrives while a handler is suspended on a request.
C3_OneInvocationInFlight ==
    Cardinality({h \in Handlers : run[h].pc = "await"}) <= 1

\* C4: no stage is invoked while the error message is set, and the decision
\* function answers "error" whenever it is set, whatever next_step says.
C4_NoStageWhileError ==
    /\ \A i \in DOMAIN stage_log : ~stage_log[i].error_at_entry
    /\ \A h \in Handlers : \A next_step \in NextSteps :
          run[h].pc = "await" /\ Truthy(run[h].graph_state.error_message)
              => should_continue_or_ask(
                    [run[h].graph_state EXCEPT !.next_step = next_step]) = "error"

\* the last stage invocation of the pipeline run
LastStage == stage_log[Len(stage_log)]

\* C5: when the chat endpoint fails or an exception escapes a stage
\* invocation, the run ends as an error with a message describing the
\* failure, the session waits for a fresh run, and the failed invocation is
\* the last one of its pipeline run.
C5_FailureEndsRun ==
    /\ (\E m \in ExceptionTexts : <<"exception", m>> \in shown) /\ Idle
          => /\ outcome.kind = "error"
             /\ Truthy(outcome.error)
             /\ app_state.current_step = "start"
    /\ \A i \in DOMAIN stage_log :
          stage_log[i].returned = "raise" => i = Len(stage_log)

\* C6: a run that ends with the error set has displayed that error message
\* and has reset the session to the fresh pipeline.
C6_ErrorShownThenReset ==
    outcome.kind = "error" /\ Truthy(outcome.error)
        => /\ <<"error", outcome.error>> \in shown
           /\ <<"reset", "">> \in shown
           /\ app_state = InitialState(session_project_id, None)

\* C7: after a stage asked a question with no error set, the next stage
\* invocation is the first one of a later message's run and is the asking
\* stage again; and while the session rests with the question pending, the
\* current step is the asking stage, the last stage invoked.
C7_PausedAtAskingStage ==
    /\ \A i \in DOMAIN stage_log :
          /\ stage_log[i].returned = "ask_user"
          /\ stage_log[i].to = END
          /\ i + 1 \in DOMAIN stage_log
          => stage_log[i + 1].first /\ stage_log[i + 1].stage = stage_log[i].stage
    /\ Idle /\ Pending /\ stage_log # <<>>
          => /\ LastStage.stage = app_state.current_step
             /\ LastStage.returned = "ask_user"

\* the next_step a stage leaves when its work is done
DoneStep ==
    [planning |-> "spec", spec |-> "task", task |-> "issue",
     issue |-> "github_publish", github_publish |-> "end"]

\* the node the graph goes to after a stage that is done
DoneTarget ==
    [planning |-> "spec", spec |-> "task", task |-> "issue",
     issue |-> "github_publish", github_publish |-> END]

\* C8: a stage invocation that finishes as done is followed by the fixed
\* next stage; and in a run started by a first message, spec invoked after a
\* planner reply "done tag + P" finds the plan output P.
C8_DoneAdvances ==
    /\ \A i \in DOMAIN stage_log :
          stage_log[i].returned = DoneStep[stage_log[i].stage]
              => stage_log[i].to = DoneTarget[stage_log[i].stage]
    /\ \A i \in DOMAIN stage_log :
          /\ stage_log[i].stage = "spec"
          /\ stage_log[i].resume_from = None
          /\ StartsWith(stage_log[i].plan_reply, TagDone)
          => stage_log[i].plan_output
                 = Strip(DropFirst(stage_log[i].plan_reply, Len(TagDone)))

\* C9: the output of a stage is populated when the machine has moved out of
\* the stage to the next one, and it is not populated while the session
\* rests on a question of that stage.
C9_OutputIffDone ==
    /\ \A i \in DOMAIN stage_log :
          LET e == stage_log[i]
          IN /\ e.stage = "spec" => e.plan_output # <<>>
             /\ e.stage = "task" => e.spec_set
             /\ e.stage = "issue" => e.task_set
             /\ e.stage = "github_publish" => e.issues_set
    /\ Idle /\ Pending /\ app_state.current_step = "planning"
          => app_state.plan_output = <<>>
    /\ Idle /\ Pending /\ app_state.current_step = "spec"
          => app_state.spec_output = <<>>

\* Is an upstream output that the stage of log entry e requires unset?
UpstreamUnset(e) ==
    CASE e.stage = "planning" -> FALSE
      [] e.stage = "spec" -> e.plan_output = <<>>
      [] e.stage = "task" -> e.plan_output = <<>> \/ ~e.spec_set
      [] e.stage = "issue" -> ~e.task_set
      [] e.stage = "github_publish" -> ~e.issues_set

\* the network calls of stage invocation i
CallsOf(i) == {k \in DOMAIN ext_calls : ext_calls[k].inv = i}

\* C10 as stated: a stage invoked with a required upstream output unset makes
\* no external call and ends with the error set, publish included.
C10_UpstreamUnsetIsFatal ==
    \A i \in DOMAIN stage_log :
        UpstreamUnset(stage_log[i])
            => /\ CallsOf(i) = {}
               /\ stage_log[i].returned = "error"
               /\ stage_log[i].to = "error_node"

\* C10 amended: spec, task and issue invoked with a required upstream output
\* unset make no external call and end with the error set; publish invoked
\* with no generated issues makes no external call either, but with a GitHub
\* client it ends the run as completed, without an error; so no external
\* call of a stage is made with an unset upstream output.
C10_UpstreamUnsetNoCall ==
    \A i \in DOMAIN stage_log :
        UpstreamUnset(stage_log[i])
            => /\ CallsOf(i) = {}
               /\ IF stage_log[i].stage = "github_publish" /\ github_client
                  THEN stage_log[i].returned = "end" /\ stage_log[i].to = END
                  ELSE stage_log[i].returned = "error"
                       /\ stage_log[i].to = "error_node"

\* C10 witness: the run is over and the last stage invoked, one of the four
\* with an upstream, found a required upstream output unset.
C10_Witness ==
    /\ Idle /\ stage_log # <<>>
    /\ LastStage.stage \in {"spec", "task", "issue", "github_publish"}
    /\ UpstreamUnset(LastStage)
    /\ LastStage.returned \in {"error", "end"}

\* ------------------------------------------------------------ the publisher
\* Has the publish loop of this pipeline run given its result?
Published == published.input # <<>>

\* the number the ticket of input issue k gets
NumberOf(k) == ToString(k)

\* Is the ticket of input issue k in the created list?
InCreated(k) ==
    \E j \in DOMAIN published.created :
        /\ published.created[j].number = NumberOf(k)
        /\ published.created[j].title = published.input[k].title

\* the error texts about a failed creation, and about a failed attachment,
\* of the issue with the title
CreationErrors(title) == {"issue failed: " \o title}

AttachErrors(title) == {"not added: " \o title, "no node id: " \o title}

\* Has input issue k an entry in the errors list?
InErrors(k) ==
    \E j \in DOMAIN published.errors :
        published.errors[j] \in CreationErrors(published.input[k].title)
                                   \cup AttachErrors(published.input[k].title)

\* C11: in the result of a publish run every input issue is in exactly one
\* of created and errors.
C11_CreatedXorErrors ==
    Published => \A k \in DOMAIN published.input : InCreated(k) # InErrors(k)

\* the titles of the create_issue requests of the pipeline run, in their order
IsCreateCall(c) == c.call.api = "create_issue"

AttemptedTitles ==
    LET attempts == SelectSeq(ext_calls, IsCreateCall)
    IN [k \in DOMAIN attempts |-> attempts[k].call.title]

InputTitles == [k \in DOMAIN published.input |-> published.input[k].title]

\* C12: when the publish loop has ended, one creation was attempted for every
\* input issue, in list order, whatever failed before.
C12_EveryIssueAttempted ==
    Published => AttemptedTitles = InputTitles

\* C12 witness: the first of two issues failed and the loop has ended.
C12_Witness ==
    /\ Published /\ Idle
    /\ Len(published.input) = 2
    /\ InErrors(1)
    /\ ~InCreated(1)

\* C13: when the board identifier is not resolved, every ticket is still
\* attempted, and a run in which every creation succeeded ends as done.
C13_BoardFailureOnlyDegrades ==
    /\ Published
    /\ Idle
    /\ published.errors = <<BoardNotFound>>
    => /\ AttemptedTitles = InputTitles
       /\ Len(published.created) = Len(published.input)
       /\ outcome.kind = "done"

\* the entries of created for input issue k, and of errors for its creation
CreatedEntries(k) ==
    {j \in DOMAIN published.created : published.created[j].number = NumberOf(k)}

CreationErrorEntries(k) ==
    {j \in DOMAIN published.errors :
        published.errors[j] \in CreationErrors(published.input[k].title)}

\* C14: in the publish result every input issue has one created entry or one
\* errors entry of a failed creation, never both and never two; created holds
\* nothing else; and the URL of every created ticket was shown to the user.
C14_OneEntryPerCreation ==
    Published
        => /\ \A k \in DOMAIN published.input :
                 Cardinality(CreatedEntries(k)) + Cardinality(CreationErrorEntries(k)) = 1
           /\ \A j \in DOMAIN published.created :
                 /\ \E k \in DOMAIN published.input : j \in CreatedEntries(k)
                 /\ <<"issue_created", published.created[j].html_url>> \in shown

\* C14 witness: of two issues one ticket was created and one creation threw.
C14_Witness ==
    /\ Published
    /\ Len(published.input) = 2
    /\ Len(published.created) = 1
    /\ \E k \in DOMAIN published.input : CreationErrorEntries(k) # {}
    /\ outcome.kind = "error"

\* the conversational stages
ChatStages == {"planning", "spec"}

\* Does the reply carry neither the done tag nor the question tag?
Untagged(reply) == ~StartsWith(reply, TagDone) /\ ~StartsWith(reply, TagQuestion)

\* C15: a planning or spec invocation whose reply carries neither tag ends as
\* done with the raw reply as its output, and the next stage follows.
C15_LenientFallback ==
    \A i \in DOMAIN stage_log :
        LET e == stage_log[i]
        IN e.stage \in ChatStages /\ e.replied /\ Untagged(e.reply)
               => /\ e.returned = DoneStep[e.stage]
                  /\ e.output = e.reply
                  /\ e.to = DoneTarget[e.stage]

\* Is out the text x without its leading and trailing whitespace, with
\* nothing else added or removed?
IsTrimOf(out, x) ==
    /\ out # <<>> => out[1] \notin Whitespace /\ out[Len(out)] \notin Whitespace
    /\ \E a \in 0..Len(x) :
          /\ a + Len(out) <= Len(x)
          /\ \A j \in 1..a : x[j] \in Whitespace
          /\ \A j \in (a + Len(out) + 1)..Len(x) : x[j] \in Whitespace
          /\ SubSeq(x, a + 1, a + Len(out)) = out

\* C16: a planning or spec reply "done tag + X" is classified done and the
\* stage's output is X trimmed of the whitespace around it.
C16_DoneTagRoundTrip ==
    \A i \in DOMAIN stage_log :
        LET e == stage_log[i]
        IN e.stage \in ChatStages /\ e.replied /\ StartsWith(e.reply, TagDone)
               => /\ e.returned = DoneStep[e.stage]
                  /\ IsTrimOf(e.output, DropFirst(e.reply, Len(TagDone)))

\* C16 witness: a spec reply with whitespace on both sides of its text was
\* classified.
C16_Witness ==
    \E i \in DOMAIN stage_log :
        LET e == stage_log[i]
            x == DropFirst(e.reply, Len(TagDone))
        IN /\ e.stage = "spec" /\ e.replied /\ StartsWith(e.reply, TagDone)
           /\ Len(x) >= 3
           /\ x[1] \in Whitespace /\ x[Len(x)] \in Whitespace
           /\ e.output # <<>>

\* ----------------------------------------------------------- issue stage
\* the states of the graph in which the publish stage is awaiting an answer:
\* the issue stage has produced its output
AtPublish == {run[h].graph_state : h \in {g \in Handlers :
                    run[g].pc = "await" /\ run[g].node = "github_publish"}}

\* C17: when the task list is a JSON object with a list of N titles, the
\* issue stage has produced N issues, one per title in the list's order, each
\* with that title and a non-empty body.
C17_OneIssuePerTitle ==
    \A st \in AtPublish :
        LET titles == JsonIssues(st.task_output)
        IN (\A k \in DOMAIN titles : titles[k] \in Titles)
              => /\ Len(st.issue_output) = Len(titles)
                 /\ \A k \in DOMAIN titles :
                       /\ st.issue_output[k].title = titles[k]
                       /\ st.issue_output[k].body # <<>>

\* ------------------------------------------------------------ credentials
\* Did the stage invocation of log entry e get to its client without a key?
\* (The upstream checks of a stage come before its request.)
CalledWithoutKey(e) ==
    /\ e.stage \in {"planning", "spec", "task"}
    /\ env.missing_key = e.stage
    /\ ~UpstreamUnset(e)

\* C18: a stage whose API key is empty makes no network request and returns
\* only the error: no turn for its history, no output; the graph goes to the
\* error node and the run ends with the error of the missing key.
C18_MissingKeyIsError ==
    \A i \in DOMAIN stage_log :
        CalledWithoutKey(stage_log[i])
            => /\ CallsOf(i) = {}
               /\ ~stage_log[i].replied
               /\ stage_log[i].keys = {"error_message", "next_step"}
               /\ stage_log[i].returned = "error"
               /\ stage_log[i].to = "error_node"
               /\ Idle => outcome = [kind |-> "error", error |-> MissingKeyError]

\* C18 witness: the spec stage was invoked without its key and the run is over.
C18_Witness ==
    /\ Idle /\ stage_log # <<>>
    /\ LastStage.stage = "spec"
    /\ CalledWithoutKey(LastStage)
    /\ outcome.error = MissingKeyError

\* --------------------------------------------------------------- histories
\* the stage whose conversation a history key holds
StageOf(key) == IF key = "plan_conversation_history" THEN "planning" ELSE "spec"

\* Was the text sent as the query of a request of the stage?
SentAsPrompt(stage, text) ==
    \E k \in DOMAIN ext_calls :
        /\ ext_calls[k].stage = stage
        /\ ext_calls[k].call.api = "dify"
        /\ ext_calls[k].call.query = text

\* C19: in each stage's history in the session, every assistant turn comes
\* right after a human turn, the one that was sent as the prompt of the call.
C19_HumanThenAssistant ==
    started =>
        \A key \in HistoryKeys :
            LET history == app_state[key]
            IN \A k \in DOMAIN history :
                   history[k].role = "ai"
                       => /\ k > 1
                          /\ history[k - 1].role = "human"
                          /\ SentAsPrompt(StageOf(key), history[k - 1].content)

IsPrefix(a, b) == Len(a) <= Len(b) /\ SubSeq(b, 1, Len(a)) = a

\* C20: a history only grows, and by the turns of one execution: in the state
\* of a running graph a history after a stage is the history before it plus at
\* most the assistant turn of the stage; in the session, unless the session
\* is reset, a history is the one before plus at most a human and an
\* assistant turn.
C20_AppendOnly ==
    [][\A key \in HistoryKeys :
          /\ \A h \in Handlers :
                run[h].pc = "await" /\ run'[h].pc = "await"
                    => /\ IsPrefix(run[h].graph_state[key], run'[h].graph_state[key])
                       /\ Len(run'[h].graph_state[key])
                              <= Len(run[h].graph_state[key]) + 1
          /\ started /\ app_state'.current_step # "start"
                    => /\ IsPrefix(app_state[key], app_state'[key])
                       /\ Len(app_state'[key]) <= Len(app_state[key]) + 2]_vars

\* ------------------------------------------------------ conversation handle
\* Is handle the one stored on the most recent assistant turn of the history,
\* the empty handle if it has no assistant turn?
IsLatestHandle(handle, history) ==
    \/ /\ \A k \in DOMAIN history : history[k].role # "ai"
       /\ handle = ""
    \/ \E k \in DOMAIN history :
          /\ history[k].role = "ai"
          /\ \A j \in DOMAIN history : j > k => history[j].role # "ai"
          /\ handle = history[k].conversation_id

\* the message_end records of a stream that carry a handle
MessageEnds(lines) ==
    {k \in DOMAIN lines :
        /\ lines[k].prefix = "data: " /\ lines[k].kind = "obj"
        /\ lines[k].event = "message_end"
        /\ lines[k].conversation_id # "absent"}

WellFormed(l) == l.prefix \in {"data: ", "data:"} /\ l.kind = "obj"

\* the answer fragments of the well-formed message records, in arrival order
RECURSIVE Fragments(_)
Fragments(lines) ==
    IF lines = <<>> THEN <<>>
    ELSE (IF WellFormed(Head(lines)) /\ Head(lines).event \in {"message", "agent_message"}
          THEN Head(lines).answer ELSE <<>>) \o Fragments(Tail(lines))

\* C22: the text a conversational stage got from the chat client is the
\* concatenation, in arrival order, of the answer fragments of the stream's
\* well-formed message and agent_message records.
C22_AnswerIsConcatenation ==
    \A i \in DOMAIN stage_log :
        stage_log[i].replied => stage_log[i].reply = Fragments(stage_log[i].lines)

\* ------------------------------------------------------- board identifier
\* Has get_project_v2_id been called since the last message?
LookedUp == lookups # NoLookup

\* C23: get_project_v2_id sends the query as user first, and the query as
\* organization only when the first one ended without an identifier; it
\* returns the first identifier found, None when there is none, and no
\* exception leaves it.
C23_UserThenOrganization ==
    LookedUp
        => /\ lookups.requests \in {<<"user">>, <<"user", "organization">>}
           /\ Len(lookups.requests) = 2 <=> lookups.lookup.user # "found"
           /\ lookups.lookup.user = "found" => lookups.result = ProjectId
           /\ lookups.lookup.user # "found" /\ lookups.lookup.org = "found"
                 => lookups.result = OrgProjectId
           /\ lookups.lookup.user # "found" /\ lookups.lookup.org # "found"
                 => lookups.result = None
           /\ \A m \in ExceptionTexts \cup {"KeyError"} : <<"exception", m>> \notin shown

\* C23 witness: the query as user ended in an exception and the query as
\* organization found the board, in the publish stage.
C23_Witness ==
    /\ LookedUp
    /\ lookups.lookup = [user |-> "exception", org |-> "found"]
    /\ lookups.requests = <<"user", "organization">>
    /\ \E h \in Handlers : run[h].pc = "await" /\ run[h].node = "github_publish"
                              /\ run[h].local.project_id = OrgProjectId

\* ------------------------------------------------------------- decisions
\* the next_step values the decision function knows
Recognized == {"ask_user", "spec", "task", "issue", "github_publish", "end"}

\* the states of the graph at which a stage is awaiting an answer
GraphStates == {run[h].graph_state : h \in {g \in Handlers : run[g].pc = "await"}}

\* C24: with the error unset the decision function answers "error" to every
\* next_step it does not know; and the decision after a stage is always one
\* of the stage's edges.
C24_UnknownStepIsError ==
    /\ \A st \in GraphStates : \A next_step \in NextSteps \ Recognized :
          should_continue_or_ask(
              [st EXCEPT !.next_step = next_step, !.error_message = None]) = "error"
    /\ \A i \in DOMAIN stage_log :
          stage_log[i].returned \notin {"", "raise"}
              => /\ stage_log[i].to \in StageNodes \cup {END, "error_node"}
                 /\ \E d \in DOMAIN EdgeTable[stage_log[i].stage] :
                       EdgeTable[stage_log[i].stage][d] = stage_log[i].to
    /\ <<"exception", "KeyError">> \notin shown

\* C24 witness: a stage is awaiting its answer with the error unset, after a
\* stage of the run has returned and the graph has taken one of its edges.
C24_Witness ==
    /\ \E st \in GraphStates : ~Truthy(st.error_message)
    /\ \E i \in DOMAIN stage_log : stage_log[i].to \in StageNodes

\* ---------------------------------------------------------------- the end
\* C25: the publish stage signals the end exactly when the graph takes its
\* edge to the end; when it does, it is the last stage of the run, and the
\* run ends as done with the error unset and no question pending.
C25_DoneWithoutError ==
    \A i \in DOMAIN stage_log :
        stage_log[i].stage = "github_publish"
            => /\ stage_log[i].returned = "end" <=> stage_log[i].to = END
               /\ stage_log[i].to = END
                     => /\ i = Len(stage_log)
                        /\ Idle
                        /\ outcome.kind = "done"
                        /\ ~Truthy(outcome.error)
                        /\ ~Truthy(app_state.error_message)
                        /\ ~Pending

\* C25 witness: a run has ended as done after its tickets were created.
C25_Witness ==
    /\ outcome.kind = "done"
    /\ Published
    /\ published.created # <<>>
    /\ LastStage.stage = "github_publish" /\ LastStage.to = END

\* ------------------------------------- the projects and documents routers
\* the project ids uuid4 may give, and the contents a document may have
ProjectIds == {"p1", "p2"}

Contents == {"", "draft"}

\* the three tables as the routers find them
Tables ==
    [projects |-> projects,
     plan_documents |-> plan_documents,
     tech_spec_documents |-> tech_spec_documents]

\* table.put_item
PutItem(table, project_id, content) ==
    [k \in DOMAIN table \cup {project_id} |->
        IF k = project_id THEN content ELSE table[k]]

\* table.delete_item
DeleteItem(table, project_id) == [k \in DOMAIN table \ {project_id} |-> table[k]]

\* a deletion that takes the documents of the project with it
project_delete_cascade(tables, project_id) ==
    [projects |-> tables.projects \ {project_id},
     plan_documents |-> DeleteItem(tables.plan_documents, project_id),
     tech_spec_documents |-> DeleteItem(tables.tech_spec_documents, project_id)]

\* Project.delete: delete_by_id of the project repository
project_delete(tables, project_id) ==
    [tables EXCEPT !.projects = @ \ {project_id}]

\* Document.save: get_repository of the base class Document gives the
\* repository of the planning documents
document_save(tables, project_id, content) ==
    [tables EXCEPT !.plan_documents = PutItem(@, project_id, content)]

\* the tables after a request, and its answer
Respond(tables, op, project_id, status_code) ==
    /\ projects' = tables.projects
    /\ plan_documents' = tables.plan_documents
    /\ tech_spec_documents' = tables.tech_spec_documents
    /\ http_response' = [op |-> op, project_id |-> project_id, status |-> status_code]
    /\ UNCHANGED <<pipeline_vars, stream_vars>>

\* POST /projects: the project, then its two empty documents; a repository
\* call that raises ends the request where it stands
create_project ==
    \E project_id \in ProjectIds :
    \E failed_at \in {"none", "project", "plan", "tech_spec"} :
        /\ project_id \notin projects
        /\ project_id \notin DOMAIN plan_documents \cup DOMAIN tech_spec_documents
        /\ LET with_project == [Tables EXCEPT !.projects = @ \cup {project_id}]
               with_plan == [with_project EXCEPT
                                !.plan_documents = PutItem(@, project_id, "")]
               with_tech_spec == [with_plan EXCEPT
                                !.tech_spec_documents = PutItem(@, project_id, "")]
           IN CASE failed_at = "project" -> Respond(Tables, "create_project", project_id, 500)
                [] failed_at = "plan" -> Respond(with_project, "create_project", project_id, 500)
                [] failed_at = "tech_spec" -> Respond(with_plan, "create_project", project_id, 500)
                [] OTHER -> Respond(with_tech_spec, "create_project", project_id, 201)

\* POST /documents/plan
save_or_update_planning_document ==
    \E project_id \in ProjectIds, content \in Contents, raised \in BOOLEAN :
        IF raised
        THEN Respond(Tables, "save_plan", project_id, 500)
        ELSE Respond(document_save(Tables, project_id, content), "save_plan", project_id, 200)

\* POST /documents/tech-spec
save_or_update_tech_spec_document ==
    \E project_id \in ProjectIds, content \in Contents, raised \in BOOLEAN :
        IF raised
        THEN Respond(Tables, "save_tech_spec", project_id, 500)
        ELSE Respond(document_save(Tables, project_id, content),
                     "save_tech_spec", project_id, 200)

\* DELETE /projects/{project_id}; delete_by_id gives True or raises, so the
\* branch of a false result is never taken
delete_project ==
    \E project_id \in ProjectIds, raised \in BOOLEAN :
        IF project_id \notin projects
        THEN Respond(Tables, "delete_project", project_id, 404)
        ELSE IF raised
        THEN Respond(Tables, "delete_project", project_id, 500)
        ELSE Respond(project_delete(Tables, project_id), "delete_project", project_id, 204)

\* the session of the pipeline, before its chat has started
PipelineIdle ==
    /\ env = [missing_key |-> "none", github_vars |-> TRUE, project_number |-> TRUE]
    /\ InitSession

ProjectsInit == PipelineIdle /\ StoreIdle /\ StreamIdle

ProjectsNext ==
    \/ create_project
    \/ save_or_update_planning_document
    \/ save_or_update_tech_spec_document
    \/ delete_project

ProjectsSpec == ProjectsInit /\ [][ProjectsNext]_vars

\* C26: a DELETE of an existing project that is answered 204 takes the
\* project out of the projects table, so that it is no longer found, and
\* leaves both document tables as they were: the plan document and the
\* tech-spec document of that project id are still there, unchanged.
C26_DeleteKeepsDocuments ==
    [][(/\ http_response'.op = "delete_project"
        /\ http_response'.status = 204)
          => /\ http_response'.project_id \in projects
             /\ http_response'.project_id \notin projects'
             /\ projects' = projects \ {http_response'.project_id}
             /\ plan_documents' = plan_documents
             /\ tech_spec_documents' = tech_spec_documents]_vars

\* C26 witness: a project has been deleted and both its documents are still
\* stored, the plan with the content it was given.
C26_Witness ==
    /\ http_response.op = "delete_project"
    /\ http_response.status = 204
    /\ http_response.project_id \notin projects
    /\ http_response.project_id \in DOMAIN plan_documents
    /\ http_response.project_id \in DOMAIN tech_spec_documents
    /\ plan_documents[http_response.project_id] = "draft"

\* ------------------------------------------------- the chat stream endpoints
\* separator = "===============": a text is its sequence of characters
SeparatorLen == 15

Equals(n) == [i \in 1..n |-> "="]

separator == Equals(SeparatorLen)

\* str.find: the index, from 0, of the first place pattern stands at, or -1
Find(text, pattern) ==
    LET places == {i \in 0..(Len(text) - Len(pattern)) :
                      SubSeq(text, i + 1, i + Len(pattern)) = pattern}
    IN IF places = {} THEN -1
       ELSE CHOOSE i \in places : \A j \in places : i <= j

\* text[index:]
SliceFrom(text, index) == SubSeq(text, index + 1, Len(text))

\* the text the code compares the buffer with after the separator: a newline
\* in api.py, a backslash and an n in routers/chat.py
NewlineLiteral(v) == IF v = "api" THEN <<"\n">> ELSE <<"\\", "n">>

\* yield json.dumps({key: text}), when the text is not empty
Yield(lines, key, text) == IF text # <<>> THEN Append(lines, <<key, text>>) ELSE lines

\* the while loop of process_stream, run when a chunk has joined the buffer
process_buffer(v, st) ==
    IF st.is_file_content
    THEN [st EXCEPT !.buffer = <<>>, !.yielded = Yield(@, "file", st.buffer)]
    ELSE LET separator_index == Find(st.buffer, separator)
         IN IF separator_index # -1
            THEN LET rest == SliceFrom(st.buffer, separator_index + Len(separator))
                     after == IF StartsWith(rest, NewlineLiteral(v))
                              THEN SliceFrom(rest, 1) ELSE rest
                     out == Yield(st.yielded, "message",
                                  SubSeq(st.buffer, 1, separator_index))
                 IN [buffer |-> <<>>, is_file_content |-> TRUE,
                     yielded |-> Yield(out, "file", after)]
            ELSE [st EXCEPT !.buffer = <<>>, !.yielded = Yield(@, "message", st.buffer)]

\* the chunks a bot may stream, and how many of them
MaxChunks == 3

Chunks ==
    {<<"a">>, <<"\n", "b">>, <<"\\", "n", "c">>,
     Equals(SeparatorLen \div 2), Equals(SeparatorLen - SeparatorLen \div 2),
     separator}

BotStreams == UNION {[1..n -> Chunks] : n \in 1..MaxChunks}

\* a request reaches a stream endpoint; the bot has its chunks ready
StreamInit ==
    /\ PipelineIdle
    /\ StoreIdle
    /\ variant \in {"api", "chat"}
    /\ stream_pc = "streaming"
    /\ bot_stream \in BotStreams
    /\ all_chunks = <<>>
    /\ buffer = <<>>
    /\ is_file_content = FALSE
    /\ yielded = <<>>

\* one round of "async for chunk in bot.stream(message)"
process_chunk ==
    /\ stream_pc = "streaming"
    /\ bot_stream # <<>>
    /\ LET chunk == Head(bot_stream)
           st == process_buffer(variant,
                                [buffer |-> buffer \o chunk,
                                 is_file_content |-> is_file_content,
                                 yielded |-> yielded])
       IN /\ bot_stream' = Tail(bot_stream)
          /\ all_chunks' = Append(all_chunks, chunk)
          /\ buffer' = st.buffer
          /\ is_file_content' = st.is_file_content
          /\ yielded' = st.yielded
    /\ UNCHANGED <<variant, stream_pc, pipeline_vars, store_vars>>

\* the stream has ended: what is left in the buffer is yielded
process_end ==
    /\ stream_pc = "streaming"
    /\ bot_stream = <<>>
    /\ stream_pc' = "done"
    /\ yielded' = Yield(yielded, IF is_file_content THEN "file" ELSE "message", buffer)
    /\ buffer' = <<>>
    /\ UNCHANGED <<variant, bot_stream, all_chunks, is_file_content,
                   pipeline_vars, store_vars>>

StreamNext == process_chunk \/ process_end

StreamSpec == StreamInit /\ [][StreamNext]_vars

\* the texts of a sequence, one after the other
RECURSIVE Flatten(_)
Flatten(texts) == IF texts = <<>> THEN <<>> ELSE Head(texts) \o Flatten(Tail(texts))

\* all the text yielded under a key, in the order it was yielded
RECURSIVE YieldedUnder(_, _)
YieldedUnder(lines, key) ==
    IF lines = <<>> THEN <<>>
    ELSE (IF Head(lines)[1] = key THEN Head(lines)[2] ELSE <<>>)
             \o YieldedUnder(Tail(lines), key)

\* the offsets at which one chunk ends and the next begins
Boundaries == {Len(Flatten(SubSeq(all_chunks, 1, n))) : n \in 1..(Len(all_chunks) - 1)}

\* the first separator of the text streamed so far lies across two or more chunks
SplitSeparator ==
    LET at == Find(Flatten(all_chunks), separator)
    IN at # -1 /\ \E b \in Boundaries : at < b /\ b < at + Len(separator)

\* C27: once the chunks streamed so far hold a separator that lies across
\* chunks, everything before it has been yielded under "message", everything
\* after it (less the one newline the code drops) under "file", and the
\* separator under neither.
C27_SplitSeparatorDetected ==
    (stream_pc = "done" /\ SplitSeparator)
        => LET text == Flatten(all_chunks)
               at == Find(text, separator)
               rest == SliceFrom(text, at + Len(separator))
           IN /\ YieldedUnder(yielded, "message") = SubSeq(text, 1, at)
              /\ YieldedUnder(yielded, "file") \in {rest, SliceFrom(rest, 1)}

\* C27, the other case: a separator that one chunk holds whole is detected.
C27_WholeSeparatorDetected ==
    (stream_pc = "done" /\ Find(Flatten(all_chunks), separator) # -1 /\ ~SplitSeparator)
        => LET text == Flatten(all_chunks)
               at == Find(text, separator)
               rest == SliceFrom(text, at + Len(separator))
           IN /\ YieldedUnder(yielded, "message") = SubSeq(text, 1, at)
              /\ YieldedUnder(yielded, "file") \in {rest, SliceFrom(rest, 1)}

\* -------------------------------------------------------- issue generation
\* C28: when the generation of a body has failed in an invocation of the
\* issue stage, the invocation makes no further request, returns the error
\* without an issue list, the graph goes to the error node and the publish
\* stage is not invoked.
C28_AllOrNothing ==
    \A i \in DOMAIN stage_log :
        (stage_log[i].stage = "issue" /\ stage_log[i].failed_after > 0)
            => /\ Cardinality(CallsOf(i)) = stage_log[i].failed_after
               /\ stage_log[i].returned = "error"
               /\ stage_log[i].to = "error_node"
               /\ "issue_output" \notin stage_log[i].keys
               /\ i = Len(stage_log)

\* ------------------------------------------------------------- a new run
\* C29: when no handler is running and the last run ended as done or as
\* error, the session holds the start state with the resolved project id;
\* a pipeline run starts at planning; and when no handler is running, the
\* session is at the start or paused on a question, never in the state in
\* which main answers that another process is running.
C29_BackAtStart ==
    /\ (Idle /\ outcome.kind \in {"done", "error"})
          => app_state = InitialState(session_project_id, None)
    /\ stage_log # <<>> => stage_log[1].stage = "planning"
    /\ (Idle /\ started)
          => \/ app_state.current_step = "start"
             \/ app_state.next_step = "ask_user"

\* C29 witness: a second message has started a new run at planning after a
\* run that ended as done or as error.
C29_Witness ==
    /\ msg_count >= 2
    /\ Idle
    /\ outcome.kind \in {"done", "error"}
    /\ stage_log # <<>>
    /\ stage_log[1].first
    /\ stage_log[1].resume_from = None

\* ------------------------------------------------- one message, one handling
\* the stage invocations of the handling that log entry j belongs to: those
\* from the last first invocation of a run_graph call up to j
SameHandling(i, j) ==
    /\ i <= j
    /\ \A k \in (i + 1)..j : ~stage_log[k].first

\* the requests an invocation can make: a conversational stage and the task
\* stage one, the issue stage one for each title, the publish stage one for
\* the project id and two for each issue
MaxCalls(e) ==
    CASE e.stage \in {"planning", "spec", "task"} -> 1
      [] e.stage = "issue" -> Cardinality(Titles)
      [] e.stage = "github_publish" -> 1 + 2 * Cardinality(Titles)

\* C30, the bounded part: in the handling of one message no stage is invoked
\* twice, and an invocation makes no more requests than its input has items,
\* so that the handling ends once its requests are answered.
C30_BoundedHandling ==
    /\ \A i, j \in DOMAIN stage_log :
          (i < j /\ SameHandling(i, j)) => stage_log[i].stage # stage_log[j].stage
    /\ \A i \in DOMAIN stage_log :
          Cardinality(CallsOf(i)) <= MaxCalls(stage_log[i])

\* C30: the handling of a message that main has passed to the graph ends
\* paused on a question, as done, or as error, and as nothing else.
C30_ThreeOutcomes ==
    (Idle /\ msg_count > 0)
        => /\ outcome.kind \in {"paused", "done", "error"}
           /\ outcome.kind = "paused" => Pending
           /\ outcome.kind = "error" => Truthy(outcome.error)

====
